---- MODULE Spec2Model ----
(***************************************************************************)
(* Model of calculatePopulation.py: the pipeline calculate_population()    *)
(* with its helpers get_remote_file_date_formatted() and download_file(),  *)
(* the working directory it reads and writes, and the remote server.       *)
(* One action per statement group of calculate_population; pc is the       *)
(* position inside the function.  Several runs follow each other in the    *)
(* same working directory.                                                 *)
(***************************************************************************)
EXTENDS Integers, Sequences, FiniteSets, TLC

VARIABLES
    pc,            \* position in calculate_population
    run,           \* number of the current run (0 before the first)
    gpd_boundary,  \* the boundary frame read from GEOJSON_FILE
    country_code,  \* value of the COUNTRY_CODE property of row 0
    raster_url,    \* the templated URL, <<>> while not built
    date_string,   \* result of the timestamp probe
    geoms,         \* the geometries handed to mask
    handle,        \* the rasterio dataset handle: "none", "open", "closed"
    src,           \* metadata of the opened raster
    out_image,     \* first band of the clipped raster
    nodata,        \* the local variable nodata
    final_count,   \* the local variable final_count
    log,           \* messages printed in the current run
    written,       \* output files written in the current run
    fsRaster,      \* RASTER_FILE in the working directory
    fsDate,        \* DATE_OUTPUT_FILE in the working directory
    fsCount        \* OUTPUT_FILE in the working directory

vars == <<pc, run, gpd_boundary, country_code, raster_url, date_string, geoms,
          handle, src, out_image, nodata, final_count, log, written,
          fsRaster, fsDate, fsCount>>

-----------------------------------------------------------------------------
(* Bounds *)

MaxRuns == 2
MaxCells == 2
Denominator == 2    \* cell values are counted in 1/Denominator persons

-----------------------------------------------------------------------------
(* Text *)

DigitChar == <<"0", "1", "2", "3", "4", "5", "6", "7", "8", "9">>
LowerLetters == <<"a", "b", "e", "k", "n", "x", "y", "z">>
UpperLetters == <<"A", "B", "E", "K", "N", "X", "Y", "Z">>

IsDigit(c) == \E i \in 1..Len(DigitChar) : DigitChar[i] = c
IsUpperLetter(c) == \E i \in 1..Len(UpperLetters) : UpperLetters[i] = c

IndexIn(seq, c) == CHOOSE i \in 1..Len(seq) : seq[i] = c

upperChar(c) ==
    IF \E i \in 1..Len(LowerLetters) : LowerLetters[i] = c
    THEN UpperLetters[IndexIn(LowerLetters, c)] ELSE c

lowerChar(c) ==
    IF \E i \in 1..Len(UpperLetters) : UpperLetters[i] = c
    THEN LowerLetters[IndexIn(UpperLetters, c)] ELSE c

upper(s) == [i \in 1..Len(s) |-> upperChar(s[i])]
lower(s) == [i \in 1..Len(s) |-> lowerChar(s[i])]

RECURSIVE Digits(_, _)
\* n written with exactly w decimal digits (zero padded)
Digits(n, w) ==
    IF w = 0 THEN <<>>
    ELSE Digits(n \div 10, w - 1) \o <<DigitChar[(n % 10) + 1]>>

RECURSIVE NatStr(_)
NatStr(n) == IF n < 10 THEN <<DigitChar[n + 1]>>
             ELSE NatStr(n \div 10) \o <<DigitChar[(n % 10) + 1]>>

\* str(final_count)
str(n) == IF n < 0 THEN <<"-">> \o NatStr(-n) ELSE NatStr(n)

\* dt_object.strftime('%Y-%m-%d')
strftime(dt) == Digits(dt.y, 4) \o <<"-">> \o Digits(dt.m, 2) \o <<"-">> \o Digits(dt.d, 2)

Unknown == <<"U", "n", "k", "n", "o", "w", "n">>

-----------------------------------------------------------------------------
(* Inputs and environment *)

Undefined == "undefined"
CrsValues == {Undefined, "EPSG:4326", "EPSG:3857"}

KEN == <<"K", "E", "N">>
NullCode == [text |-> FALSE, s |-> <<>>]
\* values the COUNTRY_CODE property can hold
CodeValues ==
    { [text |-> TRUE, s |-> KEN],
      [text |-> TRUE, s |-> <<"X", "Y", "Z">>],
      [text |-> TRUE, s |-> <<"-", "9", "9">>],
      [text |-> TRUE, s |-> <<"a", "b">>],
      NullCode }

Covers == SUBSET (1..MaxCells)

\* the attribute table and CRS of a frame; the geometry column is drawn
\* where it is first read (geometry.tolist())
Boundaries ==
    [crs : CrsValues, empty : BOOLEAN, hasCode : BOOLEAN, code : CodeValues]

NoBoundary == [crs |-> Undefined, empty |-> TRUE, hasCode |-> FALSE,
               code |-> NullCode]

\* a frame as gpd.read_file delivers it: no rows or no column, no value
ReadableBoundaries ==
    { b \in Boundaries : (b.empty \/ ~b.hasCode) => b.code = NullCode }

UrlPrefix == <<"https://data.worldpop.org/GIS/Population/Global_2000_2020/2020/">>
UrlSuffix == <<"_ppp_2020_UNadj.tif">>

\* the f-string of raster_url
Locator(code) == UrlPrefix \o upper(code) \o <<"/">> \o lower(code) \o UrlSuffix

\* the rasters the remote server holds
RemoteHas(url) == url = Locator(KEN)

NoDate == [ok |-> FALSE, y |-> 0, m |-> 0, d |-> 0]
HeaderValues ==
    { NoDate,
      [ok |-> TRUE, y |-> 2020, m |-> 11, d |-> 9] }

\* outcomes of requests.head(url)
HeadOutcomes ==
    { [exc |-> TRUE, has |-> FALSE, hdr |-> NoDate],
      [exc |-> FALSE, has |-> FALSE, hdr |-> NoDate] }
    \cup { [exc |-> FALSE, has |-> TRUE, hdr |-> h] : h \in HeaderValues }

CellValues == {-3, 0, 3}
NodataValues ==
    { [defined |-> FALSE, val |-> 0],
      [defined |-> TRUE, val |-> -3],
      [defined |-> TRUE, val |-> 0] }

NoFile == [present |-> FALSE, url |-> <<>>, complete |-> FALSE, run |-> 0]
StaleFile == [present |-> TRUE, url |-> <<"?">>, complete |-> TRUE, run |-> 0]
NoText == [present |-> FALSE, text |-> <<>>]
NoSrc == [crs |-> Undefined, nodata |-> [defined |-> FALSE, val |-> 0]]
NoGeoms == [crs |-> Undefined, cover |-> {}]

-----------------------------------------------------------------------------
(* Helpers of the pipeline *)

\* the probe with a handler for transport errors only: a Last-Modified value
\* that does not parse escapes to the caller
get_remote_file_date_formatted_narrow(resp) ==
    IF resp.exc THEN [raised |-> FALSE, value |-> Unknown]
    ELSE IF resp.has
         THEN IF resp.hdr.ok
              THEN [raised |-> FALSE, value |-> strftime(resp.hdr)]
              ELSE [raised |-> TRUE, value |-> <<>>]
         ELSE [raised |-> FALSE, value |-> Unknown]

\* get_remote_file_date_formatted(url), on the outcome of the HEAD request
get_remote_file_date_formatted(resp) ==
    IF resp.exc THEN [raised |-> FALSE, value |-> Unknown]
    ELSE IF resp.has
         THEN IF resp.hdr.ok
              THEN [raised |-> FALSE, value |-> strftime(resp.hdr)]
              ELSE [raised |-> FALSE, value |-> Unknown]
         ELSE [raised |-> FALSE, value |-> Unknown]

\* out_image[0] of mask(src, geoms, crop=True): the window spanned by the
\* shapes, cells outside the shapes filled with nodata (0 when undeclared)
MaskBand(cells, cover, nd) ==
    LET lo == CHOOSE i \in cover : \A j \in cover : i <= j
        hi == CHOOSE i \in cover : \A j \in cover : i >= j
        fill == IF nd.defined THEN nd.val ELSE 0
    IN [k \in 1..(hi - lo + 1) |->
            IF (lo + k - 1) \in cover THEN cells[lo + k - 1] ELSE fill]

RECURSIVE SumSeq(_)
SumSeq(s) == IF s = <<>> THEN 0 ELSE Head(s) + SumSeq(Tail(s))

\* out_image[0][out_image[0] != nodata]
ValidValues(band, nd) == LET Keep(v) == v # nd IN SelectSeq(band, Keep)

\* int(x) for x = n / Denominator: truncation toward zero
int(n) == IF n >= 0 THEN n \div Denominator ELSE -((-n) \div Denominator)

-----------------------------------------------------------------------------
(* State after construction: an idle process in a working directory that    *)
(* holds no outputs and may or may not hold a file named RASTER_FILE.       *)

Init ==
    /\ pc = "idle"
    /\ run = 0
    /\ gpd_boundary = NoBoundary
    /\ country_code = NullCode
    /\ raster_url = <<>>
    /\ date_string = <<>>
    /\ geoms = NoGeoms
    /\ handle = "none"
    /\ src = NoSrc
    /\ out_image = <<>>
    /\ nodata = 0
    /\ final_count = 0
    /\ log = {}
    /\ written = {}
    /\ fsRaster \in {NoFile, StaleFile}
    /\ fsDate = NoText
    /\ fsCount = NoText

\* the same, in a working directory without RASTER_FILE
InitClean == Init /\ fsRaster = NoFile

Locals == <<gpd_boundary, country_code, raster_url, date_string, geoms,
            src, out_image, nodata, final_count>>
Files == <<fsRaster, fsDate, fsCount>>

\* print(...)
Emit(tags) == log' = log \cup tags

\* leaving the with block through an exception: the dataset is closed, the
\* handler prints, control goes on to the cleanup
ExceptExit(tags) ==
    /\ handle' = "closed"
    /\ Emit(tags)
    /\ pc' = "cleanup"

-----------------------------------------------------------------------------
(* calculate_population *)

\* entry
StartRun ==
    /\ pc \in {"idle", "done", "crashed"}
    /\ run < MaxRuns
    /\ run' = run + 1
    /\ pc' = "load_boundary"
    /\ gpd_boundary' = NoBoundary
    /\ country_code' = NullCode
    /\ raster_url' = <<>>
    /\ date_string' = <<>>
    /\ geoms' = NoGeoms
    /\ handle' = "none"
    /\ src' = NoSrc
    /\ out_image' = <<>>
    /\ nodata' = 0
    /\ final_count' = 0
    /\ log' = {"starting"}
    /\ written' = {}
    /\ UNCHANGED Files

\* GEOJSON_FILE does not exist
BoundaryMissing ==
    /\ pc = "load_boundary"
    /\ Emit({"err_geojson_not_found"})
    /\ pc' = "done"
    /\ UNCHANGED <<run, Locals, handle, written, Files>>

\* gpd.read_file raises
BoundaryUnreadable ==
    /\ pc = "load_boundary"
    /\ Emit({"err_geojson_unreadable"})
    /\ pc' = "done"
    /\ UNCHANGED <<run, Locals, handle, written, Files>>

\* gpd.read_file succeeds
ReadBoundary ==
    /\ pc = "load_boundary"
    /\ \E b \in ReadableBoundaries : gpd_boundary' = b
    /\ pc' = "extract_code"
    /\ UNCHANGED <<run, country_code, raster_url, date_string, geoms, handle,
                   src, out_image, nodata, final_count, log, written, Files>>

\* gpd_boundary.iloc[0]['COUNTRY_CODE']
ExtractCode ==
    /\ pc = "extract_code"
    /\ ~gpd_boundary.empty
    /\ gpd_boundary.hasCode
    /\ country_code' = gpd_boundary.code
    /\ Emit({"detected_country_code"})
    /\ pc' = "build_url"
    /\ UNCHANGED <<run, gpd_boundary, raster_url, date_string, geoms, handle,
                   src, out_image, nodata, final_count, written, Files>>

\* except KeyError
ExtractCodeKeyError ==
    /\ pc = "extract_code"
    /\ ~gpd_boundary.empty
    /\ ~gpd_boundary.hasCode
    /\ Emit({"err_no_country_code_property"})
    /\ pc' = "done"
    /\ UNCHANGED <<run, Locals, handle, written, Files>>

\* except IndexError: iloc[0] is evaluated before the column lookup
ExtractCodeIndexError ==
    /\ pc = "extract_code"
    /\ gpd_boundary.empty
    /\ Emit({"err_geojson_empty"})
    /\ pc' = "done"
    /\ UNCHANGED <<run, Locals, handle, written, Files>>

\* the f-string of raster_url, on a text value
BuildUrl ==
    /\ pc = "build_url"
    /\ country_code.text
    /\ raster_url' = Locator(country_code.s)
    /\ Emit({"target_raster_url"})
    /\ pc' = "probe"
    /\ UNCHANGED <<run, gpd_boundary, country_code, date_string, geoms, handle,
                   src, out_image, nodata, final_count, written, Files>>

\* country_code.upper() on a value that is not text: AttributeError, which
\* no handler catches
BuildUrlRaises ==
    /\ pc = "build_url"
    /\ ~country_code.text
    /\ pc' = "crashed"
    /\ UNCHANGED <<run, Locals, handle, log, written, Files>>

\* date_string = get_remote_file_date_formatted(raster_url)
Probe ==
    /\ pc = "probe"
    /\ \E resp \in HeadOutcomes :
          LET r == get_remote_file_date_formatted(resp) IN
          IF r.raised
          THEN /\ pc' = "crashed"
               /\ UNCHANGED <<date_string, log>>
          ELSE /\ date_string' = r.value
               /\ Emit((IF resp.exc \/ (resp.has /\ ~resp.hdr.ok)
                         THEN {"warn_no_date"} ELSE {}) \cup {"remote_data_date"})
               /\ pc' = "write_date"
    /\ UNCHANGED <<run, gpd_boundary, country_code, raster_url, geoms, handle,
                   src, out_image, nodata, final_count, written, Files>>

\* with open(DATE_OUTPUT_FILE, 'w') as f: f.write(date_string)
WriteDate ==
    /\ pc = "write_date"
    /\ fsDate' = [present |-> TRUE, text |-> date_string]
    /\ written' = written \cup {"date"}
    /\ pc' = "check_raster"
    /\ UNCHANGED <<run, Locals, handle, log, fsRaster, fsCount>>

\* os.path.exists(RASTER_FILE): the download is skipped
SkipDownload ==
    /\ pc = "check_raster"
    /\ fsRaster.present
    /\ pc' = "open_raster"
    /\ UNCHANGED <<run, Locals, handle, log, written, Files>>

\* download_file returns True
Download ==
    /\ pc = "check_raster"
    /\ ~fsRaster.present
    /\ RemoteHas(raster_url)
    /\ fsRaster' = [present |-> TRUE, url |-> raster_url, complete |-> TRUE,
                    run |-> run]
    /\ Emit({"downloading", "download_successful"})
    /\ pc' = "open_raster"
    /\ UNCHANGED <<run, Locals, handle, written, fsDate, fsCount>>

\* requests.get or raise_for_status raises RequestException: nothing was
\* opened locally
DownloadRequestFails ==
    /\ pc = "check_raster"
    /\ ~fsRaster.present
    /\ Emit({"downloading", "err_download", "abort_download"})
    /\ pc' = "done"
    /\ UNCHANGED <<run, Locals, handle, written, Files>>

\* open(local_filename, 'wb') raises after a good response: handled by
\* except Exception, no local file
DownloadLocalOpenFails ==
    /\ pc = "check_raster"
    /\ ~fsRaster.present
    /\ RemoteHas(raster_url)
    /\ Emit({"downloading", "err_download_unexpected", "abort_download"})
    /\ pc' = "done"
    /\ UNCHANGED <<run, Locals, handle, written, Files>>

\* the stream breaks inside shutil.copyfileobj: the local file exists and
\* holds what arrived so far
DownloadStreamFails ==
    /\ pc = "check_raster"
    /\ ~fsRaster.present
    /\ RemoteHas(raster_url)
    /\ fsRaster' = [present |-> TRUE, url |-> raster_url, complete |-> FALSE,
                    run |-> run]
    /\ Emit({"downloading", "err_download_unexpected", "abort_download"})
    /\ pc' = "done"
    /\ UNCHANGED <<run, Locals, handle, written, fsDate, fsCount>>

\* geoms = gpd_boundary.geometry.tolist(); rasterio.open(RASTER_FILE)
OpenRaster ==
    /\ pc = "open_raster"
    /\ \E c \in Covers : geoms' = [crs |-> gpd_boundary.crs, cover |-> c]
    /\ \E rc \in CrsValues, nd \in NodataValues :
          src' = [crs |-> rc, nodata |-> nd]
    /\ handle' = "open"
    /\ pc' = "crs_check"
    /\ UNCHANGED <<run, gpd_boundary, country_code, raster_url, date_string,
                   out_image, nodata, final_count, log, written, Files>>

\* rasterio.open raises RasterioIOError: no dataset was acquired
OpenRasterRaises ==
    /\ pc = "open_raster"
    /\ \E c \in Covers : geoms' = [crs |-> gpd_boundary.crs, cover |-> c]
    /\ Emit({"err_raster_io"})
    /\ pc' = "cleanup"
    /\ UNCHANGED <<run, gpd_boundary, country_code, raster_url, date_string,
                   handle, src, out_image, nodata, final_count, written, Files>>

\* gpd_boundary.crs != src.crs is False
CrsMatch ==
    /\ pc = "crs_check"
    /\ gpd_boundary.crs = src.crs
    /\ pc' = "mask"
    /\ UNCHANGED <<run, Locals, handle, log, written, Files>>

\* gpd_boundary = gpd_boundary.to_crs(src.crs); geoms = ...tolist()
Reproject ==
    /\ pc = "crs_check"
    /\ gpd_boundary.crs # src.crs
    /\ gpd_boundary.crs # Undefined
    /\ src.crs # Undefined
    /\ gpd_boundary' = [gpd_boundary EXCEPT !.crs = src.crs]
    /\ geoms' = [geoms EXCEPT !.crs = src.crs]
    /\ Emit({"warn_crs_mismatch"})
    /\ pc' = "mask"
    /\ UNCHANGED <<run, country_code, raster_url, date_string, handle, src,
                   out_image, nodata, final_count, written, Files>>

\* to_crs raises: the frame has no CRS, or the target CRS is None
ReprojectRaises ==
    /\ pc = "crs_check"
    /\ gpd_boundary.crs # src.crs
    /\ gpd_boundary.crs = Undefined \/ src.crs = Undefined
    /\ ExceptExit({"warn_crs_mismatch", "err_unexpected"})
    /\ UNCHANGED <<run, Locals, written, Files>>

\* out_image, out_transform = mask(src, geoms, crop=True)
Mask ==
    /\ pc = "mask"
    /\ geoms.cover # {}
    /\ \E cells \in [1..MaxCells -> CellValues] :
          out_image' = MaskBand(cells, geoms.cover, src.nodata)
    /\ Emit({"clipping"})
    /\ pc' = "aggregate"
    /\ UNCHANGED <<run, gpd_boundary, country_code, raster_url, date_string,
                   geoms, handle, src, nodata, final_count, written, Files>>

\* mask with the dataset left open on the error path
MaskRaisesLeak ==
    /\ pc = "mask"
    /\ Emit({"clipping", "err_unexpected"})
    /\ pc' = "cleanup"
    /\ UNCHANGED <<run, Locals, handle, written, Files>>

\* mask raises: no shape overlaps the raster, or the pixels cannot be read
MaskRaises ==
    /\ pc = "mask"
    /\ ExceptExit({"clipping", "err_unexpected"})
    /\ UNCHANGED <<run, Locals, written, Files>>

\* nodata = src.nodata ... final_count = int(total_population)
Aggregate ==
    /\ pc = "aggregate"
    /\ LET nd == IF src.nodata.defined THEN src.nodata.val ELSE 0 IN
          /\ nodata' = nd
          /\ final_count' = int(SumSeq(ValidValues(out_image, nd)))
    /\ Emit({"calculation_complete", "total_estimated_population"})
    /\ pc' = "write_result"
    /\ UNCHANGED <<run, gpd_boundary, country_code, raster_url, date_string,
                   geoms, handle, src, out_image, written, Files>>

\* with open(OUTPUT_FILE, 'w') as f: f.write(str(final_count)); the with
\* block of the dataset ends
WriteResult ==
    /\ pc = "write_result"
    /\ fsCount' = [present |-> TRUE, text |-> str(final_count)]
    /\ written' = written \cup {"count"}
    /\ Emit({"result_written"})
    /\ handle' = "closed"
    /\ pc' = "cleanup"
    /\ UNCHANGED <<run, Locals, fsRaster, fsDate>>

\* open(OUTPUT_FILE, 'w') raises
WriteResultRaises ==
    /\ pc = "write_result"
    /\ ExceptExit({"err_unexpected"})
    /\ UNCHANGED <<run, Locals, written, Files>>

\* if os.path.exists(RASTER_FILE): os.remove(RASTER_FILE)
Cleanup ==
    /\ pc = "cleanup"
    /\ IF fsRaster.present
       THEN /\ fsRaster' = NoFile
            /\ Emit({"cleaned_up"})
       ELSE UNCHANGED <<fsRaster, log>>
    /\ pc' = "done"
    /\ UNCHANGED <<run, Locals, handle, written, fsDate, fsCount>>

Next ==
    \/ StartRun
    \/ BoundaryMissing
    \/ BoundaryUnreadable
    \/ ReadBoundary
    \/ ExtractCode
    \/ ExtractCodeKeyError
    \/ ExtractCodeIndexError
    \/ BuildUrl
    \/ BuildUrlRaises
    \/ Probe
    \/ WriteDate
    \/ SkipDownload
    \/ Download
    \/ DownloadRequestFails
    \/ DownloadLocalOpenFails
    \/ DownloadStreamFails
    \/ OpenRaster
    \/ OpenRasterRaises
    \/ CrsMatch
    \/ Reproject
    \/ ReprojectRaises
    \/ Mask
    \/ MaskRaises
    \/ Aggregate
    \/ WriteResult
    \/ WriteResultRaises
    \/ Cleanup

Spec == Init /\ [][Next]_vars

SpecClean == InitClean /\ [][Next]_vars

-----------------------------------------------------------------------------
(* Vocabulary of the properties *)

ErrorTags ==
    { "err_geojson_not_found", "err_geojson_unreadable",
      "err_no_country_code_property", "err_geojson_empty", "err_download",
      "err_download_unexpected", "abort_download", "err_raster_io",
      "err_unexpected" }

Returned == pc \in {"done", "crashed"}
StageFailed == pc = "crashed" \/ (log \cap ErrorTags) # {}

IsISODate(s) ==
    /\ Len(s) = 10
    /\ s[5] = "-"
    /\ s[8] = "-"
    /\ \A i \in {1, 2, 3, 4, 6, 7, 9, 10} : IsDigit(s[i])

IsDateOrUnknown(s) == s = Unknown \/ IsISODate(s)

WellFormedCode(c) ==
    /\ c.text
    /\ Len(c.s) = 3
    /\ \A i \in 1..Len(c.s) : IsUpperLetter(c.s[i])

NonNegativeValid(band, nd) ==
    LET Keep(v) == v # nd /\ v >= 0 IN SelectSeq(band, Keep)

-----------------------------------------------------------------------------
(* Properties *)

\* C1: a run in which a stage failed returns without having written any
\* output file, neither population_count.txt nor populationDate.txt.
C1_FailClosed == (Returned /\ StageFailed) => written = {}

\* C2: the integer written is the truncated sum of exactly the cells of the
\* clipped band that differ from nodata and are not negative.
C2_SumOfValidNonNegative ==
    ("count" \in written) =>
        fsCount.text = str(int(SumSeq(NonNegativeValid(out_image, nodata))))

\* C3: whenever population_count.txt is written in a run, its content is a
\* non-negative integer (decimal digits only).
C3_NonNegativeCount ==
    ("count" \in written) =>
        /\ fsCount.present
        /\ fsCount.text # <<>>
        /\ \A i \in 1..Len(fsCount.text) : IsDigit(fsCount.text[i])

\* C4: when the resolved code has no remote raster, the run reports the
\* download failure and writes no output file, whatever the working
\* directory held at the start of the run.
C4_DatasetNotFound ==
    (Returned /\ raster_url # <<>> /\ ~RemoteHas(raster_url)) =>
        /\ written = {}
        /\ "err_download" \in log

\* C5: the raster handle is open only between rasterio.open and the end of
\* the clipping/aggregation step: it is not open during the probe or the
\* download, and not open at the cleanup or after the function returned,
\* on the normal path and on every failure path.
C5_HandleReleased ==
    /\ handle = "open" => pc \in {"crs_check", "mask", "aggregate", "write_result"}
    /\ pc \in {"probe", "write_date", "check_raster", "open_raster"} => handle = "none"
    /\ pc \in {"cleanup", "done", "crashed"} => handle # "open"

C5_Witness ==
    /\ pc = "done"
    /\ handle = "closed"
    /\ {"clipping", "err_unexpected"} \subseteq log
    /\ "count" \notin written

\* C6: the timestamp probe never raises: for every outcome of the HEAD
\* request it hands back a YYYY-MM-DD string or "Unknown", and control goes
\* on through the write of the date to the download stage.
C6_ProbeNeverRaises ==
    /\ [](pc \in {"write_date", "check_raster"} => IsDateOrUnknown(date_string))
    /\ [][pc = "probe" => pc' = "write_date"]_vars
    /\ [][pc = "write_date" => pc' = "check_raster"]_vars

C6_Witness ==
    /\ pc = "check_raster"
    /\ date_string = Unknown
    /\ "warn_no_date" \in log

\* C7: when mask is applied the geometries carry the raster's CRS, and a
\* run in which the boundary CRS or the raster CRS is undefined never gets
\* to mask and writes no population.
C7_CrsMatchAtMask ==
    /\ pc = "mask" =>
          /\ geoms.crs = src.crs
          /\ geoms.crs # Undefined
          /\ src.crs # Undefined
    /\ ("count" \in written) => src.crs # Undefined

\* C8: with no nodata declared, the aggregation uses 0 as the sentinel, a
\* diagnostic about the substitution is printed in that run, and a band of
\* zeros gives the aggregate 0.
C8_NodataDefault ==
    (pc = "write_result" /\ ~src.nodata.defined) =>
        /\ nodata = 0
        /\ "nodata_default" \in log
        /\ ((\A i \in 1..Len(out_image) : out_image[i] = 0) => final_count = 0)

\* C9: a URL is built only from a well-formed code (three uppercase
\* letters); a malformed code ends the run with a reported outcome and
\* never with an uncaught exception.
C9_MalformedRejected ==
    /\ raster_url # <<>> => WellFormedCode(country_code)
    /\ pc # "crashed"
    /\ (pc = "done" /\ "detected_country_code" \in log
            /\ ~WellFormedCode(country_code)) => (log \cap ErrorTags) # {}

\* C10: starting without population_raster.tif, a run that clips a raster
\* clips the file it downloaded completely itself from its own URL, and no
\* run returns leaving population_raster.tif behind.
C10_OwnRasterOnly ==
    /\ pc = "mask" =>
          /\ fsRaster.present
          /\ fsRaster.complete
          /\ fsRaster.run = run
          /\ fsRaster.url = raster_url
    /\ Returned => ~fsRaster.present

====
